---------------------------- MODULE Spec2Model ----------------------------
(***************************************************************************)
(* AskLlama: config.py (module-level configuration read from the process   *)
(* environment) and fc.py (is_task_email: build one chat-completions       *)
(* request and POST it).                                                    *)
(*                                                                         *)
(* Text is a sequence of fragments: a literal of the source is one         *)
(* fragment, the caller's email text is a sequence of one-character        *)
(* fragments, and an f-string is the concatenation (\o) of its parts.      *)
(* A dict is the sequence of its entries in insertion order.               *)
(***************************************************************************)
EXTENDS Integers, Sequences, FiniteSets, TLC

\* Longest email text a caller passes, in characters.
MaxLen == 1

\* Calls a single caller makes during one run of the process.
MaxCalls == 2

\* Concurrent callers of is_task_email.
Threads == {1, 2}

\* Characters an email text is made of (a letter and whitespace).
Chars == {"a", " "}

RECURSIVE TextsUpTo(_)
TextsUpTo(n) ==
    IF n = 0 THEN {<<>>}
    ELSE LET shorter == TextsUpTo(n - 1)
         IN shorter \cup {Append(s, c) : s \in {x \in shorter : Len(x) = n - 1}, c \in Chars}

\* The non-empty strings a caller passes as email_content.
Emails == TextsUpTo(MaxLen) \ {<<>>}

\* Python values of os.getenv: None, or a str.
NoneVal == [type |-> "NoneType"]
Str(text) == [type |-> "str", text |-> text]

\* The variables config.py reads, and the value each has when it is set.
EnvNames == {"LOCAL_LLM_BASE_ADDRESS", "OPEN_WEBUI_JWT"}
EnvText(name) == IF name = "LOCAL_LLM_BASE_ADDRESS" THEN <<"h", ":", "8">> ELSE <<"k">>

\* The environments the process may start in: each variable set or absent.
Environments == { [name \in D |-> Str(EnvText(name))] : D \in SUBSET EnvNames }

\* os.getenv(name): the variable's value, None when it is not set.
getenv(environ, name) == IF name \in DOMAIN environ THEN environ[name] ELSE NoneVal

\* str(v) as an f-string replacement field renders it.
Format(v) == IF v = NoneVal THEN <<"None">> ELSE v.text

VARIABLES
    environ,        \* os.environ of the process
    pcMain,         \* "start" -> "config" (config.py ran) -> "ready" (fc.py ran)
    llm_address,    \* config.llm_address
    api_url,        \* config.api_url
    default_model,  \* config.default_model
    jwt,            \* config.jwt
    model,          \* fc.model
    pc,             \* per caller: position inside is_task_email
    ncalls,         \* per caller: invocations started
    email_arg,      \* per caller: the text it passed to the current call
    result,         \* per caller: what the current call gave back
    locals,         \* per frame: the locals of is_task_email
    wire            \* per caller: the POSTs of its current call, and the reply

config == <<llm_address, api_url, default_model, jwt, model>>
vars == <<environ, pcMain, llm_address, api_url, default_model, jwt, model,
          pc, ncalls, email_arg, result, locals, wire>>

Unbound == [type |-> "unbound"]
EmptyFrame == [email_content |-> <<>>, headers |-> Unbound, schema |-> <<>>,
               payload |-> Unbound, response |-> Unbound]
NoResult == [kind |-> "none"]
QuietWire == [requests |-> <<>>, reply |-> Unbound]

\* What the service may answer: a success, an error status, a body that is not JSON.
Responses ==
    { [status_code |-> 200, text |-> "{\"choices\": [...]}"],
      [status_code |-> 500, text |-> "Internal Server Error"],
      [status_code |-> 200, text |-> "<html>"] }

Init ==
    /\ environ \in Environments
    /\ pcMain = "start"
    /\ llm_address = Unbound
    /\ api_url = Unbound
    /\ default_model = Unbound
    /\ jwt = Unbound
    /\ model = Unbound
    /\ pc = [t \in Threads |-> "idle"]
    /\ ncalls = [t \in Threads |-> 0]
    /\ email_arg = [t \in Threads |-> <<>>]
    /\ result = [t \in Threads |-> NoResult]
    /\ locals = [f \in Threads |-> EmptyFrame]
    /\ wire = [t \in Threads |-> QuietWire]

\* config.py, run once when fc.py imports it.
LoadConfig ==
    /\ pcMain = "start"
    /\ llm_address' = getenv(environ, "LOCAL_LLM_BASE_ADDRESS")
    /\ api_url' = <<"http://">> \o Format(getenv(environ, "LOCAL_LLM_BASE_ADDRESS"))
                      \o <<"/api/chat/completions">>
    /\ default_model' = <<"llama3.2:latest">>
    /\ jwt' = getenv(environ, "OPEN_WEBUI_JWT")
    /\ pcMain' = "config"
    /\ UNCHANGED <<environ, model, pc, ncalls, email_arg, result, locals, wire>>

\* fc.py's module body after the import: model = default_model.
LoadFc ==
    /\ pcMain = "config"
    /\ model' = default_model
    /\ pcMain' = "ready"
    /\ UNCHANGED <<environ, llm_address, api_url, default_model, jwt,
                   pc, ncalls, email_arg, result, locals, wire>>


(***************************************************************************)
(* is_task_email(email_content), fc.py lines 7-48.                         *)
(***************************************************************************)

\* A single frame shared by every invocation (locals kept at module level).
SharedFrame(t) == CHOOSE f \in Threads : \A g \in Threads : f <= g

\* The frame holding the locals of caller t's invocation: one per invocation.
FrameOf(t) == t

\* Headers whose Authorization value is the token alone, without its scheme.
HeadersRawToken ==
    [Authorization |-> Format(jwt),
     ContentType   |-> <<"application/json">>]

\* headers, lines 8-11.
Headers ==
    [Authorization |-> <<"Bearer ">> \o Format(jwt),
     ContentType   |-> <<"application/json">>]

\* A schema whose result field is declared a string.
SchemaResultString ==
    << [key |-> "result",
        value |-> [type |-> "string",
                   description |-> "True if the email contains a task, false otherwise."]],
       [key |-> "task_subject",
        value |-> [type |-> "string",
                   description |-> "Then the subject of the task, if result is true."]],
       [key |-> "task_description",
        value |-> [type |-> "string",
                   description |-> "A description of the task that the user needs to do, if result is true."]] >>

\* schema, lines 12-25: the dict's entries in insertion order.
Schema ==
    << [key |-> "result",
        value |-> [type |-> "boolean",
                   description |-> "True if the email contains a task, false otherwise."]],
       [key |-> "task_subject",
        value |-> [type |-> "string",
                   description |-> "Then the subject of the task, if result is true."]],
       [key |-> "task_description",
        value |-> [type |-> "string",
                   description |-> "A description of the task that the user needs to do, if result is true."]] >>

\* repr of one schema entry: 'key': {'type': '...', 'description': '...'}.
ReprEntry(e) ==
    <<"'", e.key, "': {'type': '", e.value.type, "', 'description': '",
      e.value.description, "'}">>

RECURSIVE ReprEntries(_)
ReprEntries(d) ==
    IF d = <<>> THEN <<>>
    ELSE IF Len(d) = 1 THEN ReprEntry(d[1])
    ELSE ReprEntry(d[1]) \o <<", ">> \o ReprEntries(Tail(d))

\* str(dict), as the replacement field {schema} of line 33 renders it.
ReprDict(d) == <<"{">> \o ReprEntries(d) \o <<"}">>

\* The system turn's content, lines 31-34.
SystemContent(schema) ==
    <<"You are a helpful AI assistant. The user will provide the content of an email ",
      "and you will respond according to the provided schema: ">>
    \o ReprDict(schema) \o <<".">>

\* str.strip(): the text without its leading and trailing whitespace.
RECURSIVE LStrip(_)
LStrip(text) ==
    IF text # <<>> /\ Head(text) = " " THEN LStrip(Tail(text)) ELSE text

RECURSIVE RStrip(_)
RStrip(text) ==
    IF text # <<>> /\ text[Len(text)] = " " THEN RStrip(SubSeq(text, 1, Len(text) - 1)) ELSE text

\* A payload whose user turn is email_content.strip().
PayloadStripped(email_content, schema) ==
    [model    |-> model,
     messages |-> << [role |-> "system", content |-> SystemContent(schema)],
                     [role |-> "user", content |-> RStrip(LStrip(email_content))] >>,
     format   |-> [type |-> "object", properties |-> schema],
     stream   |-> FALSE]

\* A payload that asks for a streamed reply.
PayloadStreaming(email_content, schema) ==
    [model    |-> model,
     messages |-> << [role |-> "system", content |-> SystemContent(schema)],
                     [role |-> "user", content |-> email_content] >>,
     format   |-> [type |-> "object", properties |-> schema],
     stream   |-> TRUE]

\* A payload whose system turn restates the schema from a copy that lacks
\* the last field, instead of from the schema it sends.
PayloadDriftedPrompt(email_content, schema) ==
    [model    |-> model,
     messages |-> << [role |-> "system",
                      content |-> SystemContent(SubSeq(schema, 1, Len(schema) - 1))],
                     [role |-> "user", content |-> email_content] >>,
     format   |-> [type |-> "object", properties |-> schema],
     stream   |-> FALSE]

\* payload, lines 26-46.
Payload(email_content, schema) ==
    [model    |-> model,
     messages |-> << [role |-> "system", content |-> SystemContent(schema)],
                     [role |-> "user", content |-> email_content] >>,
     format   |-> [type |-> "object", properties |-> schema],
     stream   |-> FALSE]

\* The call: the caller binds email_content in a fresh frame (line 7).
Call(t, s) ==
    /\ pcMain = "ready"
    /\ pc[t] \in {"idle", "done"}
    /\ ncalls[t] < MaxCalls
    /\ ncalls' = [ncalls EXCEPT ![t] = @ + 1]
    /\ email_arg' = [email_arg EXCEPT ![t] = s]
    /\ result' = [result EXCEPT ![t] = NoResult]
    /\ wire' = [wire EXCEPT ![t] = QuietWire]
    /\ locals' = [locals EXCEPT ![FrameOf(t)] = [EmptyFrame EXCEPT !.email_content = s]]
    /\ pc' = [pc EXCEPT ![t] = "headers"]
    /\ UNCHANGED <<environ, pcMain, config>>

\* Lines 8-11.
BuildHeaders(t) ==
    /\ pc[t] = "headers"
    /\ locals' = [locals EXCEPT ![FrameOf(t)].headers = Headers]
    /\ pc' = [pc EXCEPT ![t] = "schema"]
    /\ UNCHANGED <<environ, pcMain, config, ncalls, email_arg, result, wire>>

\* Lines 12-25.
BuildSchema(t) ==
    /\ pc[t] = "schema"
    /\ locals' = [locals EXCEPT ![FrameOf(t)].schema = Schema]
    /\ pc' = [pc EXCEPT ![t] = "payload"]
    /\ UNCHANGED <<environ, pcMain, config, ncalls, email_arg, result, wire>>

\* Lines 26-46.
BuildPayload(t) ==
    /\ pc[t] = "payload"
    /\ locals' = [locals EXCEPT ![FrameOf(t)].payload =
                      Payload(locals[FrameOf(t)].email_content, locals[FrameOf(t)].schema)]
    /\ pc' = [pc EXCEPT ![t] = "post"]
    /\ UNCHANGED <<environ, pcMain, config, ncalls, email_arg, result, wire>>

\* Line 47, the call of requests.post: the request goes out and the caller blocks.
Post(t) ==
    /\ pc[t] = "post"
    /\ wire' = [wire EXCEPT ![t].requests =
                    Append(@, [method  |-> "POST",
                               url     |-> api_url,
                               headers |-> locals[FrameOf(t)].headers,
                               json    |-> locals[FrameOf(t)].payload])]
    /\ pc' = [pc EXCEPT ![t] = "awaiting"]
    /\ UNCHANGED <<environ, pcMain, config, ncalls, email_arg, result, locals>>

\* Line 47, requests.post returns: the service answered, with any status and body.
PostReturns(t, r) ==
    /\ pc[t] = "awaiting"
    /\ wire' = [wire EXCEPT ![t].reply = r]
    /\ locals' = [locals EXCEPT ![FrameOf(t)].response = r]
    /\ pc' = [pc EXCEPT ![t] = "return"]
    /\ UNCHANGED <<environ, pcMain, config, ncalls, email_arg, result>>

\* A failed POST that is sent again instead of raising.
PostRaisesRetried(t) ==
    /\ pc[t] = "awaiting"
    /\ wire' = [wire EXCEPT ![t].reply = [type |-> "unreachable"]]
    /\ pc' = [pc EXCEPT ![t] = "post"]
    /\ UNCHANGED <<environ, pcMain, config, ncalls, email_arg, result, locals>>

\* A failed POST whose exception is caught and turned into a returned None.
PostRaisesSwallowed(t) ==
    /\ pc[t] = "awaiting"
    /\ wire' = [wire EXCEPT ![t].reply = [type |-> "unreachable"]]
    /\ result' = [result EXCEPT ![t] = [kind |-> "returned", value |-> NoneVal]]
    /\ locals' = [locals EXCEPT ![FrameOf(t)] = EmptyFrame]
    /\ pc' = [pc EXCEPT ![t] = "done"]
    /\ UNCHANGED <<environ, pcMain, config, ncalls, email_arg>>

\* Line 47, requests.post raises: the service could not be reached. Nothing in
\* is_task_email catches it, so the exception leaves the function.
PostRaises(t) ==
    /\ pc[t] = "awaiting"
    /\ wire' = [wire EXCEPT ![t].reply = [type |-> "unreachable"]]
    /\ result' = [result EXCEPT ![t] = [kind |-> "raised", exc |-> "ConnectionError"]]
    /\ locals' = [locals EXCEPT ![FrameOf(t)] = EmptyFrame]
    /\ pc' = [pc EXCEPT ![t] = "done"]
    /\ UNCHANGED <<environ, pcMain, config, ncalls, email_arg>>

\* A return preceded by response.raise_for_status().
ReturnRaiseForStatus(t) ==
    /\ pc[t] = "return"
    /\ result' = [result EXCEPT ![t] =
                      IF locals[FrameOf(t)].response.status_code >= 400
                      THEN [kind |-> "raised", exc |-> "HTTPError"]
                      ELSE [kind |-> "returned", value |-> locals[FrameOf(t)].response]]
    /\ locals' = [locals EXCEPT ![FrameOf(t)] = EmptyFrame]
    /\ pc' = [pc EXCEPT ![t] = "done"]
    /\ UNCHANGED <<environ, pcMain, config, ncalls, email_arg, wire>>

\* Line 48: return response.
Return(t) ==
    /\ pc[t] = "return"
    /\ result' = [result EXCEPT ![t] = [kind |-> "returned", value |-> locals[FrameOf(t)].response]]
    /\ locals' = [locals EXCEPT ![FrameOf(t)] = EmptyFrame]
    /\ pc' = [pc EXCEPT ![t] = "done"]
    /\ UNCHANGED <<environ, pcMain, config, ncalls, email_arg, wire>>

Next ==
    \/ LoadConfig
    \/ LoadFc
    \/ \E t \in Threads, s \in Emails : Call(t, s)
    \/ \E t \in Threads : BuildHeaders(t)
    \/ \E t \in Threads : BuildSchema(t)
    \/ \E t \in Threads : BuildPayload(t)
    \/ \E t \in Threads : Post(t)
    \/ \E t \in Threads, r \in Responses : PostReturns(t, r)
    \/ \E t \in Threads : PostRaises(t)
    \/ \E t \in Threads : Return(t)

Spec == Init /\ [][Next]_vars

(***************************************************************************)
(* Properties.                                                             *)
(***************************************************************************)

\* The requests caller t's current invocation has put on the network.
Sent(t) == { wire[t].requests[i] : i \in 1..Len(wire[t].requests) }

Missing(name) == name \notin DOMAIN environ

TheKeys == {"result", "task_subject", "task_description"}
TypeOf(key) == IF key = "result" THEN "boolean" ELSE "string"

\* C1: the user turn (messages[1] of the source, the second turn) of every
\* request an invocation sends is the text its caller passed to this very
\* call, unchanged.
C1_UserTurnVerbatim ==
    \A t \in Threads : \A req \in Sent(t) :
        req.json.messages[2].content = email_arg[t]

\* A second call of some caller has sent a text that starts with whitespace.
C1_Witness ==
    \E t \in Threads :
        /\ ncalls[t] >= 2
        /\ Sent(t) # {}
        /\ Head(email_arg[t]) = " "
        /\ \A req \in Sent(t) : Head(req.json.messages[2].content) = " "

\* C2: when OPEN_WEBUI_JWT is absent from the environment, no request is
\* ever sent (loading the configuration fails first).
C2_MissingTokenSendsNothing ==
    Missing("OPEN_WEBUI_JWT") => \A t \in Threads : Sent(t) = {}

\* C3: an invocation has made no POST before line 47 and exactly one from
\* then on, whether the POST was answered, answered with an error status,
\* or failed.
C3_ExactlyOnePost ==
    \A t \in Threads :
        Len(wire[t].requests) = IF pc[t] \in {"awaiting", "return", "done"} THEN 1 ELSE 0

\* One invocation ended in a network failure and another in a 500 reply.
C3_Witness ==
    \E t, u \in Threads :
        /\ pc[t] = "done" /\ result[t].kind = "raised"
        /\ pc[u] = "done" /\ result[u].kind = "returned"
        /\ result[u].value.status_code = 500
        /\ Len(wire[t].requests) = 1 /\ Len(wire[u].requests) = 1

\* C4: the Authorization header of every request is "Bearer " followed by
\* the value config.py read from OPEN_WEBUI_JWT when it was loaded.
C4_AuthorizationIsBearerToken ==
    \A t \in Threads : \A req \in Sent(t) :
        /\ jwt = getenv(environ, "OPEN_WEBUI_JWT")
        /\ req.headers.Authorization = <<"Bearer ">> \o Format(jwt)

\* A later call, with a token configured, has sent its request.
C4_Witness ==
    \E t \in Threads :
        /\ ncalls[t] >= 2
        /\ ~Missing("OPEN_WEBUI_JWT")
        /\ \E req \in Sent(t) : req.headers.Authorization = <<"Bearer ", "k">>

\* C5: once the service has answered, the invocation ends by returning
\* exactly the response it was given, whatever its status and body.
C5_ResponseReturnedUnmodified ==
    \A t \in Threads :
        (pc[t] = "done" /\ wire[t].reply \in Responses)
            => result[t] = [kind |-> "returned", value |-> wire[t].reply]

\* A 500 reply and a reply whose body is not JSON were both returned.
C5_Witness ==
    \E t, u \in Threads :
        /\ pc[t] = "done" /\ result[t].kind = "returned"
        /\ result[t].value.status_code = 500
        /\ pc[u] = "done" /\ result[u].kind = "returned"
        /\ result[u].value.text = "<html>"

\* C6: the step in which a POST fails surfaces ConnectionError to the
\* caller, returns nothing, and changes none of api_url, model and jwt (nor
\* the rest of the configuration).
C6_NetworkErrorSurfaced ==
    [][ \A t \in Threads :
          (pc[t] = "awaiting" /\ wire'[t].reply = [type |-> "unreachable"])
              => /\ result'[t] = [kind |-> "raised", exc |-> "ConnectionError"]
                 /\ pc'[t] = "done"
                 /\ config' = config ]_vars

\* A call failed while the configuration was loaded from a full environment.
C6_Witness ==
    \E t \in Threads :
        /\ pc[t] = "done"
        /\ wire[t].reply = [type |-> "unreachable"]
        /\ result[t].kind = "raised"
        /\ environ = [name \in EnvNames |-> Str(EnvText(name))]

\* C7: under every interleaving an invocation works on its own frame: the
\* frame holds its caller's text, its request carries that text, and the
\* value it hands back is the reply to its own request.
C7_InvocationsIndependent ==
    \A t \in Threads :
        /\ pc[t] \notin {"idle", "done"} => locals[FrameOf(t)].email_content = email_arg[t]
        /\ \A req \in Sent(t) : req.json.messages[2].content = email_arg[t]
        /\ pc[t] = "return" => locals[FrameOf(t)].response = wire[t].reply
        /\ (pc[t] = "done" /\ result[t].kind = "returned") => result[t].value = wire[t].reply

\* Two callers are inside the function at once with different texts, one
\* already answered, the other still waiting.
C7_Witness ==
    \E t, u \in Threads :
        /\ pc[t] = "return" /\ pc[u] = "awaiting"
        /\ email_arg[t] # email_arg[u]
        /\ locals[FrameOf(t)].email_content # locals[FrameOf(u)].email_content

\* C8: format.properties of every request has exactly the keys result,
\* task_subject and task_description, typed boolean, string and string.
C8_FormatProperties ==
    \A t \in Threads : \A req \in Sent(t) :
        LET props == req.json.format.properties IN
        /\ Len(props) = 3
        /\ { props[i].key : i \in 1..Len(props) } = TheKeys
        /\ \A i \in 1..Len(props) : props[i].value.type = TypeOf(props[i].key)

\* Requests for two different texts are out at once.
C8_Witness ==
    \E t, u \in Threads :
        /\ Sent(t) # {} /\ Sent(u) # {}
        /\ email_arg[t] = <<"a">> /\ email_arg[u] = <<" ">>

\* C9: the stream field of every request is false.
C9_StreamFalse ==
    \A t \in Threads : \A req \in Sent(t) : req.json.stream = FALSE

\* Every caller has a request out.
C9_Witness ==
    \A t \in Threads : pc[t] = "awaiting" /\ Sent(t) # {}

\* C10: messages is the system turn followed by the user turn and nothing
\* else, and the system turn's text is the rendering of the very schema the
\* request sends as format.properties.
C10_TwoTurnsOneSchema ==
    \A t \in Threads : \A req \in Sent(t) :
        /\ Len(req.json.messages) = 2
        /\ req.json.messages[1].role = "system"
        /\ req.json.messages[2].role = "user"
        /\ req.json.messages[1].content = SystemContent(req.json.format.properties)

\* A request is out whose system turn names every key of its format.properties.
C10_Witness ==
    \E t \in Threads : \E req \in Sent(t) :
        /\ req.json.format.properties # <<>>
        /\ \A i \in 1..Len(req.json.format.properties) :
              \E j \in 1..Len(req.json.messages[1].content) :
                  req.json.messages[1].content[j] = req.json.format.properties[i].key

=============================================================================
